---------------------------- MODULE Spec2Model ----------------------------
(***************************************************************************)
(* Extractive summarisation by keyword scoring, as implemented in the      *)
(* notebook "Text Summarization (Basic Approach).ipynb".                   *)
(*                                                                         *)
(* The model covers the cells from the keyword sort (line 278) to the      *)
(* summary generation loop (lines 452-453).  Fetching the article,         *)
(* sentence segmentation, preprocess() and the Yake! extractor are         *)
(* external: their results (sentences, sentences_processed,                *)
(* yake_keywords) are the inputs, drawn in Init.                           *)
(*                                                                         *)
(* Texts are sequences of one-character strings.  A keyword importance is  *)
(* a rational <<p, q>> = p/q whose value is 0 or a power of two, so that   *)
(* np.log(1 / score) is an integer multiple of ln 2; sentence scores are   *)
(* exact rationals <<num, den>> in units of ln 2.                          *)
(***************************************************************************)
EXTENDS Integers, Sequences, FiniteSets, TLC

VARIABLES sentences, num_sentences, sentences_processed, yake_keywords,
          yake_keywords_sorted, sentence_scores, sentence_scores_sorted,
          summary_size, top_sentences, summary, pc, error

vars == <<sentences, num_sentences, sentences_processed, yake_keywords,
          yake_keywords_sorted, sentence_scores, sentence_scores_sorted,
          summary_size, top_sentences, summary, pc, error>>

----------------------------------------------------------------------------
(* Bounds and input sets *)

MaxSentences == 4

\* processed sentence texts: "", "a", "b", "a b"
ProcessedTexts == {<<>>, <<"a">>, <<"b">>, <<"a", " ", "b">>}

\* keyword texts: "a", "b"
KeywordTexts == {<<"a">>, <<"b">>}

\* raw importances 0, 1/4, 1, 2
Importances == {<<0, 1>>, <<1, 4>>, <<1, 1>>, <<2, 1>>}

\* length difference len(sentences) - len(sentences_processed)
Skews == {-1, 0, 1}

\* summary_size in quarters: -1/4, 0, 1/4, 1/2, 3/4, 1
SummarySizes == {<<k, 4>> : k \in -1..4}

----------------------------------------------------------------------------
(* Helpers *)

Elems(seq) == {seq[i] : i \in 1..Len(seq)}

RECURSIVE GCD(_, _)
GCD(a, b) == IF b = 0 THEN a ELSE GCD(b, a % b)

Abs(x) == IF x < 0 THEN -x ELSE x

\* stable sort of seq, where less[i][j] tells whether seq[i] orders strictly
\* before seq[j]: an element comes after those that are smaller and after
\* the equal ones that precede it in the input
StableSort(seq, less) ==
    LET n == Len(seq)
        Rank(i) == 1 + Cardinality({j \in 1..n :
                        \/ less[j][i]
                        \/ (~less[i][j] /\ j < i)})
    IN [r \in 1..n |-> seq[CHOOSE i \in 1..n : Rank(i) = r]]

\* Python slice seq[:k]
SliceTo(seq, k) ==
    LET n == Len(seq)
        stop == IF k >= 0 THEN (IF k < n THEN k ELSE n)
                          ELSE (IF n + k > 0 THEN n + k ELSE 0)
    IN SubSeq(seq, 1, stop)

\* rounding down instead of up
CeilAsFloor(a, b) == a \div b

\* ceil(a / b) for b > 0
Ceil(a, b) == -((-a) \div b)


----------------------------------------------------------------------------
(* Keyword sort, line 278 *)

\* p1/q1 < p2/q2 for positive denominators
RatLess(x, y) == x[1] * y[2] < y[1] * x[2]

KeywordLess(a, b) == RatLess(a[2], b[2])

\* only the first extracted keyword kept, without sorting
SortKeywordsFirstOnly(kws) == IF Len(kws) = 0 THEN kws ELSE <<kws[1]>>

\* sorted(yake_keywords, key=lambda tup: tup[1], reverse=False)
SortKeywords(kws) ==
    StableSort(kws, [i \in 1..Len(kws) |->
                       [j \in 1..Len(kws) |-> KeywordLess(kws[i], kws[j])]])

----------------------------------------------------------------------------
(* Sentence scoring, lines 326-345 *)

\* keyword in sent (substring test)
Contains(sent, keyword) ==
    \E i \in 0..(Len(sent) - Len(keyword)) :
        SubSeq(sent, i + 1, i + Len(keyword)) = keyword

\* a guarded length: at least 1
SentLenGuarded(sent) ==
    LET n == Cardinality({i \in 1..Len(sent) :
                            /\ sent[i] # " "
                            /\ (i = 1 \/ sent[i - 1] = " ")})
    IN IF n = 0 THEN 1 ELSE n

\* len(sent.split()): number of whitespace-delimited tokens
SentLen(sent) ==
    Cardinality({i \in 1..Len(sent) :
                    /\ sent[i] # " "
                    /\ (i = 1 \/ sent[i - 1] = " ")})

RECURSIVE Log2(_)
Log2(x) == IF x <= 1 THEN 0 ELSE 1 + Log2(x \div 2)

\* 1 / score
Reciprocal(score) == <<score[2], score[1]>>

\* np.log(x) in units of ln 2, x a power of two
NpLog(x) == Log2(x[1]) - Log2(x[2])

\* the score update moved out of the substring test
KeywordContributionUnmatched(sent, kw) ==
    IF kw[2][1] = 0 THEN 0 ELSE NpLog(Reciprocal(kw[2]))

\* one pass of the inner loop body, lines 332-339
KeywordContribution(sent, kw) ==
    IF kw[2][1] = 0 THEN 0
    ELSE IF Contains(sent, kw[1]) THEN NpLog(Reciprocal(kw[2]))
    ELSE 0

RECURSIVE SumContributions(_, _, _)
SumContributions(sent, kws, i) ==
    IF i > Len(kws) THEN 0
    ELSE KeywordContribution(sent, kws[i]) + SumContributions(sent, kws, i + 1)

\* sent_score after the inner loop
SentScore(sent, kws) == SumContributions(sent, kws, 1)

\* sent_score / sent_len as a reduced fraction, sent_len > 0
Divide(num, den) ==
    LET g == GCD(Abs(num), den) IN <<num \div g, den \div g>>

\* next index of the enumerate() loop
NextSid == Cardinality(DOMAIN sentence_scores)

----------------------------------------------------------------------------
(* Ranking, line 363 *)

\* sentence_scores.items() in insertion order
Items(scores) ==
    [i \in 1..Cardinality(DOMAIN scores) |-> <<i - 1, scores[i - 1]>>]

ScoreGreater(a, b) == RatLess(b[2], a[2])

\* reverse=False: ascending by score
SortScoresAscending(items) ==
    StableSort(items, [i \in 1..Len(items) |->
                         [j \in 1..Len(items) |->
                             RatLess(items[i][2], items[j][2])]])

\* sorted(..., key=lambda x: x[1])[::-1]: ascending sort, then reversed
SortScoresReversed(items) ==
    LET asc == SortScoresAscending(items)
    IN [i \in 1..Len(asc) |-> asc[Len(asc) + 1 - i]]

\* sorted(..., key=lambda x: x[1], reverse=True)
SortScores(items) ==
    StableSort(items, [i \in 1..Len(items) |->
                         [j \in 1..Len(items) |->
                             ScoreGreater(items[i], items[j])]])

----------------------------------------------------------------------------
(* Selection, lines 396-407, and first-sentence rule, lines 433-434 *)

\* int(np.ceil(summary_size * num_sentences))
TargetCount(size, n) == Ceil(size[1] * n, size[2])

\* sentence_scores_sorted[targetCount:]
CutTail(sorted, size, n) ==
    SubSeq(sorted, TargetCount(size, n) + 1, Len(sorted))

\* sentence_scores_sorted[:targetCount]
Cut(sorted, size, n) == SliceTo(sorted, TargetCount(size, n))

\* [ t[0] for t in top_sentences ]
Indices(top) == [i \in 1..Len(top) |-> top[i][1]]

IntLess(a, b) == a < b

\* the re-sort by index left out
SortIndicesOmitted(top) == top

\* sorted(top_sentences)
SortIndices(top) ==
    StableSort(top, [i \in 1..Len(top) |->
                       [j \in 1..Len(top) |-> IntLess(top[i], top[j])]])

\* the first-sentence rule left out
FirstSentenceRuleOmitted(top) == top

\* index 0 prepended without the membership test
FirstSentenceRuleAlways(top) == <<0>> \o top

\* if 0 not in top_sentences: top_sentences = [0] + top_sentences
FirstSentenceRule(top) ==
    IF 0 \notin Elems(top) THEN <<0>> \o top ELSE top

\* the selection for a given ranking, fraction and sentence count
Selection(sorted, size, n) ==
    FirstSentenceRule(SortIndices(Indices(Cut(sorted, size, n))))

----------------------------------------------------------------------------
(* Summary generation, lines 452-453 *)

RECURSIVE LStrip(_)
LStrip(s) == IF Len(s) > 0 /\ Head(s) = " " THEN LStrip(Tail(s)) ELSE s

RECURSIVE RStrip(_)
RStrip(s) ==
    IF Len(s) > 0 /\ s[Len(s)] = " " THEN RStrip(SubSeq(s, 1, Len(s) - 1))
    ELSE s

\* str.strip()
Strip(s) == RStrip(LStrip(s))

\* the processed sentence printed in place of the original one (where the
\* processed list has that index)
SummaryLineProcessed(idx) ==
    IF idx < Len(sentences_processed)
    THEN Strip(sentences_processed[idx + 1])
    ELSE Strip(sentences[idx + 1])

\* sentences[idx].strip()
SummaryLine(idx) == Strip(sentences[idx + 1])

----------------------------------------------------------------------------
(* Inputs *)

\* keyword lists with pairwise distinct keyword texts
KeywordLists ==
    UNION {{ks \in [1..k -> KeywordTexts \X Importances] :
               \A i, j \in 1..k : i # j => ks[i][1] # ks[j][1]} :
           k \in 0..Cardinality(KeywordTexts)}

ProcessedLists == UNION {[1..n -> ProcessedTexts] : n \in 0..MaxSentences}

OriginalWords == <<"S", "T", "U", "V", "W", "X">>

\* the original sentence at list position i (already stripped, line 142):
\* one word at odd positions, two words at even positions
OriginalText(i) ==
    LET w == OriginalWords[((i - 1) % Len(OriginalWords)) + 1]
    IN IF i % 2 = 1 THEN <<w>> ELSE <<w, " ", w>>

OriginalList(n) == [i \in 1..n |-> OriginalText(i)]

Init ==
    /\ sentences_processed \in ProcessedLists
    /\ \E d \in Skews :
          /\ Len(sentences_processed) + d \in 0..MaxSentences
          /\ sentences = OriginalList(Len(sentences_processed) + d)
    /\ num_sentences = Len(sentences)
    /\ yake_keywords \in KeywordLists
    /\ yake_keywords_sorted = <<>>
    /\ sentence_scores = <<>>
    /\ sentence_scores_sorted = <<>>
    /\ summary_size = <<1, 4>>
    /\ top_sentences = <<>>
    /\ summary = <<>>
    /\ pc = "keywords"
    /\ error = "none"

----------------------------------------------------------------------------
(* Cells *)

\* line 278
SortKeywordsCell ==
    /\ pc = "keywords"
    /\ yake_keywords_sorted' = SortKeywords(yake_keywords)
    /\ pc' = "scoring"
    /\ UNCHANGED <<sentences, num_sentences, sentences_processed,
                   yake_keywords, sentence_scores, sentence_scores_sorted,
                   summary_size, top_sentences, summary, error>>

\* one iteration of the outer loop, lines 328-345
ScoreSentence ==
    /\ pc = "scoring"
    /\ NextSid < Len(sentences_processed)
    /\ LET sid == NextSid
           sent == sentences_processed[sid + 1]
           sent_score == SentScore(sent, yake_keywords_sorted)
           sent_len == SentLen(sent)
       IN IF sent_len = 0
          THEN /\ error' = "ZeroDivisionError"
               /\ pc' = "error"
               /\ UNCHANGED sentence_scores
          ELSE /\ sentence_scores' =
                      [i \in DOMAIN sentence_scores \cup {sid} |->
                          IF i = sid THEN Divide(sent_score, sent_len)
                          ELSE sentence_scores[i]]
               /\ UNCHANGED <<pc, error>>
    /\ UNCHANGED <<sentences, num_sentences, sentences_processed,
                   yake_keywords, yake_keywords_sorted,
                   sentence_scores_sorted, summary_size, top_sentences,
                   summary>>

\* line 363, after the loop has run to its end
RankCell ==
    /\ pc = "scoring"
    /\ NextSid = Len(sentences_processed)
    /\ sentence_scores_sorted' = SortScores(Items(sentence_scores))
    /\ pc' = "selection"
    /\ UNCHANGED <<sentences, num_sentences, sentences_processed,
                   yake_keywords, yake_keywords_sorted, sentence_scores,
                   summary_size, top_sentences, summary, error>>

\* lines 396-407
SelectCell ==
    /\ pc = "selection"
    /\ \E size \in SummarySizes :
          /\ summary_size' = size
          /\ top_sentences' =
                SortIndices(Indices(Cut(sentence_scores_sorted, size,
                                        num_sentences)))
    /\ pc' = "first"
    /\ UNCHANGED <<sentences, num_sentences, sentences_processed,
                   yake_keywords, yake_keywords_sorted, sentence_scores,
                   sentence_scores_sorted, summary, error>>

\* lines 433-434
FirstSentenceCell ==
    /\ pc = "first"
    /\ top_sentences' = FirstSentenceRule(top_sentences)
    /\ pc' = "generation"
    /\ UNCHANGED <<sentences, num_sentences, sentences_processed,
                   yake_keywords, yake_keywords_sorted, sentence_scores,
                   sentence_scores_sorted, summary_size, summary, error>>

\* one iteration of the loop of lines 452-453
PrintSentence ==
    /\ pc = "generation"
    /\ Len(summary) < Len(top_sentences)
    /\ LET idx == top_sentences[Len(summary) + 1]
       IN IF idx >= Len(sentences)
          THEN /\ error' = "IndexError"
               /\ pc' = "error"
               /\ UNCHANGED summary
          ELSE /\ summary' = Append(summary, SummaryLine(idx))
               /\ UNCHANGED <<pc, error>>
    /\ UNCHANGED <<sentences, num_sentences, sentences_processed,
                   yake_keywords, yake_keywords_sorted, sentence_scores,
                   sentence_scores_sorted, summary_size, top_sentences>>

\* the loop of lines 452-453 has run to its end
Finish ==
    /\ pc = "generation"
    /\ Len(summary) = Len(top_sentences)
    /\ pc' = "done"
    /\ UNCHANGED <<sentences, num_sentences, sentences_processed,
                   yake_keywords, yake_keywords_sorted, sentence_scores,
                   sentence_scores_sorted, summary_size, top_sentences,
                   summary, error>>

Next ==
    \/ SortKeywordsCell
    \/ ScoreSentence
    \/ RankCell
    \/ SelectCell
    \/ FirstSentenceCell
    \/ PrintSentence
    \/ Finish

Spec == Init /\ [][Next]_vars


----------------------------------------------------------------------------
(* Properties *)

Aligned == Len(sentences) = Len(sentences_processed)

\* summary_size in (0, 1]
ValidFraction(size) == 0 < size[1] /\ size[1] <= size[2]

\* totalSentenceCount >= 1, both sentence views of equal length,
\* summaryFraction in (0, 1]
ValidInput == Aligned /\ num_sentences >= 1 /\ ValidFraction(summary_size)

\* the first-sentence rule has run: top_sentences is the final selection
Selected == pc \in {"generation", "done"} \/ error = "IndexError"

\* the indices of the first t entries of the ranking
TopOfRanking(t) == {sentence_scores_sorted[i][1] : i \in 1..t}

Target == TargetCount(summary_size, num_sentences)

\* C1: for every valid input the final selection contains index 0.
C1_FirstSentenceSelected ==
    (ValidInput /\ Selected) => 0 \in Elems(top_sentences)

\* reached: a finished valid run in which index 0 was not among the top
\* targetCount and was prepended
C1_Witness ==
    /\ pc = "done"
    /\ ValidInput
    /\ 0 \notin TopOfRanking(Target)
    /\ top_sentences[1] = 0

\* C2: for every valid input the final selection is strictly ascending by
\* sentence index, hence free of duplicates, also after index 0 was prepended.
C2_StrictlyAscending ==
    (ValidInput /\ Selected) =>
        \A i, j \in 1..Len(top_sentences) :
            i < j => top_sentences[i] < top_sentences[j]

\* reached: a finished valid run where the score ranking of the cut is not
\* in index order and index 0 was prepended
C2_Witness ==
    /\ pc = "done"
    /\ ValidInput
    /\ Target >= 2
    /\ 0 \notin TopOfRanking(Target)
    /\ sentence_scores_sorted[1][1] > sentence_scores_sorted[2][1]
    /\ Len(top_sentences) = Target + 1

\* C3: for every valid input the final selection has at least
\* ceil(summaryFraction * totalSentenceCount) entries, and that target
\* count is at least 1.
C3_AtLeastTarget ==
    (ValidInput /\ Selected) =>
        /\ Len(top_sentences) * summary_size[2]
              >= summary_size[1] * num_sentences
        /\ Len(top_sentences) >= Target
        /\ Target >= 1
        /\ (Target - 1) * summary_size[2] < summary_size[1] * num_sentences

\* reached: a finished valid run where summaryFraction * totalSentenceCount
\* is not an integer and the selection has exactly the rounded-up size
C3_Witness ==
    /\ pc = "done"
    /\ ValidInput
    /\ (summary_size[1] * num_sentences) % summary_size[2] # 0
    /\ Len(top_sentences) = Target
    /\ Target >= 2

\* C4: for every valid input the final selection has at most
\* totalSentenceCount entries, all of them indices in
\* 0..totalSentenceCount-1; its size is targetCount when index 0 is among
\* the top targetCount of the ranking and targetCount+1 otherwise.
C4_SizeAndRange ==
    (ValidInput /\ Selected) =>
        /\ Len(top_sentences) <= num_sentences
        /\ \A i \in 1..Len(top_sentences) :
              top_sentences[i] \in 0..(num_sentences - 1)
        /\ Len(top_sentences) =
              IF 0 \in TopOfRanking(Target) THEN Target ELSE Target + 1

\* reached: a finished valid run where prepending index 0 brings the
\* selection to exactly totalSentenceCount entries
C4_Witness ==
    /\ pc = "done"
    /\ ValidInput
    /\ 0 \notin TopOfRanking(Target)
    /\ Len(top_sentences) = Target + 1
    /\ Len(top_sentences) = num_sentences

\* C5: with an empty sentence list the run fails with EmptyDocument and
\* yields no selection and no summary.
C5_EmptyDocumentRejected ==
    (Aligned /\ num_sentences = 0) =>
        /\ top_sentences = <<>>
        /\ summary = <<>>
        /\ (pc \in {"done", "error"} => error = "EmptyDocument")

\* C6: with summaryFraction <= 0 (on an otherwise valid document) selection
\* fails with InvalidParameter and yields no selection.
C6_NonPositiveFractionRejected ==
    (Aligned /\ num_sentences >= 1 /\ summary_size[1] <= 0) =>
        /\ error = "InvalidParameter"
        /\ top_sentences = <<>>
        /\ summary = <<>>

\* every processed sentence has at least one token
AllTokenised ==
    \A i \in 1..Len(sentences_processed) : SentLen(sentences_processed[i]) > 0

C8_MonotoneInFraction ==
    (ValidInput /\ Selected) =>
        \A other \in SummarySizes :
            ValidFraction(other) =>
                LET n == Len(Selection(sentence_scores_sorted, other,
                                       num_sentences))
                IN /\ (other[1] >= summary_size[1]
                          => n >= Len(top_sentences))
                   /\ (other[1] <= summary_size[1]
                          => n <= Len(top_sentences))

\* reached: a finished valid run where index 0 was prepended, and a larger
\* valid fraction under which index 0 is among the top targetCount
C8_Witness ==
    /\ pc = "done"
    /\ ValidInput
    /\ 0 \notin TopOfRanking(Target)
    /\ Len(top_sentences) = Target + 1
    /\ \E other \in SummarySizes :
          /\ ValidFraction(other)
          /\ other[1] > summary_size[1]
          /\ 0 \in TopOfRanking(TargetCount(other, num_sentences))
          /\ Len(Selection(sentence_scores_sorted, other, num_sentences))
                = Len(top_sentences)

NoPositiveKeyword(sid) ==
    \A i \in 1..Len(yake_keywords) :
        yake_keywords[i][2][1] > 0 =>
            ~Contains(sentences_processed[sid + 1], yake_keywords[i][1])

AllImportancesZero ==
    \A i \in 1..Len(yake_keywords) : yake_keywords[i][2][1] = 0

\* C10: a keyword of importance 0 contributes nothing: a scored sentence
\* containing no keyword of positive importance has score 0; when every
\* keyword has importance 0, every sentence of a valid run scores 0 and the
\* final selection contains index 0.
C10_ZeroImportanceSkipped ==
    /\ \A sid \in DOMAIN sentence_scores :
          NoPositiveKeyword(sid) => sentence_scores[sid] = <<0, 1>>
    /\ (AllImportancesZero /\ ValidInput /\ Selected) =>
          /\ DOMAIN sentence_scores = 0..(num_sentences - 1)
          /\ \A sid \in DOMAIN sentence_scores :
                sentence_scores[sid] = <<0, 1>>
          /\ 0 \in Elems(top_sentences)

\* reached: a finished valid run where every keyword has importance 0 and
\* some keyword occurs in some sentence
C10_Witness ==
    /\ pc = "done"
    /\ ValidInput
    /\ num_sentences >= 2
    /\ Len(yake_keywords) >= 1
    /\ AllImportancesZero
    /\ \E sid \in DOMAIN sentence_scores :
          \E i \in 1..Len(yake_keywords) :
              Contains(sentences_processed[sid + 1], yake_keywords[i][1])


\* the keyword of a single-keyword list
OnlyKeyword == yake_keywords[1][1]

\* C11: with a single keyword, the final selection of a valid run holds only
\* sentences that include the keyword, and no sentence whose score is 0.
C11_SingleKeywordOnlyMatching ==
    (ValidInput /\ Selected /\ Len(yake_keywords) = 1) =>
        \A i \in 1..Len(top_sentences) :
            /\ Contains(sentences_processed[top_sentences[i] + 1], OnlyKeyword)
            /\ sentence_scores[top_sentences[i]] # <<0, 1>>

\* the ranking is available
Ranked == pc \in {"selection", "first", "generation", "done"}
             \/ error = "IndexError"

\* C12: the summary has one entry per index of the final selection, in the
\* same order, entry j being the original text of the sentence at the j-th
\* selected index; assembly changes neither the original nor the processed
\* sentences, nor the score map, nor the selection.
C12_AssemblyFaithful ==
    /\ [](Selected =>
            /\ Len(summary) <= Len(top_sentences)
            /\ \A j \in 1..Len(summary) :
                  summary[j] = sentences[top_sentences[j] + 1]
            /\ (pc = "done" => Len(summary) = Len(top_sentences)))
    /\ [][pc = "generation" =>
            UNCHANGED <<sentences, sentences_processed, sentence_scores,
                        sentence_scores_sorted, top_sentences>>]_vars

\* reached: a finished run whose summary has at least three sentences, one
\* of them a two-word original sentence, the selection skipping an index
C12_Witness ==
    /\ pc = "done"
    /\ ValidInput
    /\ Len(summary) >= 3
    /\ Len(summary) < num_sentences
    /\ \E j \in 1..Len(summary) : Len(summary[j]) = 3
    /\ \E j \in 1..(Len(top_sentences) - 1) :
          top_sentences[j + 1] > top_sentences[j] + 1

\* the keyword list in every order
PermutationsOf(kws) ==
    LET n == Len(kws)
        bijections == {p \in [1..n -> 1..n] :
                          \A i, j \in 1..n : i # j => p[i] # p[j]}
    IN {[i \in 1..n |-> kws[p[i]]] : p \in bijections}

\* the run has ended, normally or with an error
Terminated == pc \in {"done", "error"}

AllScoresEqual ==
    \A s, u \in DOMAIN sentence_scores : sentence_scores[s] = sentence_scores[u]

\* C14: in the ranking, sentences of equal score are in ascending index
\* order; when all scores are equal the final selection of a valid run is
\* exactly [0, 1, ..., targetCount-1].
C14_TiesByAscendingIndex ==
    /\ Ranked =>
          \A i, j \in 1..Len(sentence_scores_sorted) :
              (i < j /\ sentence_scores_sorted[i][2]
                           = sentence_scores_sorted[j][2])
                  => sentence_scores_sorted[i][1] < sentence_scores_sorted[j][1]
    /\ (ValidInput /\ Selected /\ AllScoresEqual) =>
          top_sentences = [i \in 1..Target |-> i - 1]

\* reached: a finished valid run where all sentences score the same nonzero
\* value and the cut takes some but not all of them
C14_Witness ==
    /\ pc = "done"
    /\ ValidInput
    /\ AllScoresEqual
    /\ sentence_scores[0] # <<0, 1>>
    /\ Target >= 2
    /\ Target < num_sentences
    /\ top_sentences = [i \in 1..Target |-> i - 1]

\* the processed sentence at index sid has no token
ZeroTokens(sid) ==
    \A i \in 1..Len(sentences_processed[sid + 1]) :
        sentences_processed[sid + 1][i] = " "

\* C15: when a processed sentence has no token, no score is stored for the
\* first such sentence or any later one, scoring ends in the
\* ZeroDivisionError state, and no ranking, selection or summary is produced.
C15_ZeroTokenSentenceFails ==
    \A z \in 0..(Len(sentences_processed) - 1) :
        ZeroTokens(z) =>
            /\ \A sid \in DOMAIN sentence_scores : sid < z
            /\ sentence_scores_sorted = <<>>
            /\ top_sentences = <<>>
            /\ summary = <<>>
            /\ pc \in {"keywords", "scoring", "error"}
            /\ (pc = "error" => error = "ZeroDivisionError")
            /\ (pc = "scoring" => error = "none")

\* reached: scoring stopped at a zero-token sentence that has scored
\* sentences before it and unscored sentences after it
C15_Witness ==
    /\ pc = "error"
    /\ error = "ZeroDivisionError"
    /\ \E z \in 1..(Len(sentences_processed) - 2) :
          /\ ZeroTokens(z)
          /\ DOMAIN sentence_scores = 0..(z - 1)
          /\ ~ZeroTokens(z + 1)

============================================================================
